---- MODULE Spec2Model ----
(***************************************************************************)
(* AppController of flowy-folder (services/app/controller.rs): the         *)
(* transactional coordination point between local persistence, the cloud   *)
(* service, the trash controller and the notification bus.                 *)
(***************************************************************************)
EXTENDS Integers, Sequences, FiniteSets, TLC

(* ------------------------------ bounds --------------------------------- *)
\* calls of initialize() (each spawns one listener task)
MaxInit == 2
\* trash events whose acknowledgement channel is still open
MaxInFlight == 2
\* identifiers carried by one trash event
MaxItems == 2

(* ------------------------------ domains -------------------------------- *)
Workspaces == {"W1", "W2"}
AppIds == {"a1", "a2", "a3"}
Names == {"A", "B"}
Callers == {"c1", "c2"}
Listeners == 1..MaxInit
Slots == 1..MaxInFlight

\* the workspace an id is minted for (ids are globally unique: an app belongs
\* to exactly one workspace)
HomeOf(id) == IF id = "a3" THEN "W2" ELSE "W1"

AppRevision(id, name) == [id |-> id, name |-> name, workspace_id |-> HomeOf(id)]
AppRevisions == {AppRevision(id, n) : id \in AppIds, n \in Names}

\* CreateAppParams {workspace_id, name}
CreateAppParams == [name : Names, workspace_id : Workspaces]
\* UpdateAppParams {id, optional name}: name is <<>> (absent) or <<n>>
UpdateAppParams == [id : AppIds, name : {<<>>} \cup {<<n>> : n \in Names}]

\* From<AppRevision> for AppPB: the view object carries the row's fields
AppPB(app) == [id |-> app.id, name |-> app.name, workspace_id |-> app.workspace_id]

RECURSIVE MapAppPB(_)
MapAppPB(apps) ==
  IF apps = <<>> THEN <<>> ELSE <<AppPB(Head(apps))>> \o MapAppPB(Tail(apps))

Ok(v) == [err |-> "Ok", val |-> v]
Err(e) == [err |-> e, val |-> <<>>]

(* ---------------- persistence transaction (FolderPersistence) ---------- *)
\* a store maps each workspace to its ordered sequence of app rows

RECURSIVE SeqIds(_)
SeqIds(apps) == IF apps = <<>> THEN <<>> ELSE <<Head(apps).id>> \o SeqIds(Tail(apps))

Range(s) == {s[i] : i \in DOMAIN s}

StoreIds(s) == UNION {Range(SeqIds(s[w])) : w \in Workspaces}

StoreRows(s) == UNION {Range(s[w]) : w \in Workspaces}

\* transaction.read_app(id): errors if absent
TxReadApp(s, id) ==
  IF \E r \in StoreRows(s) : r.id = id
  THEN Ok(<<CHOOSE r \in StoreRows(s) : r.id = id>>)
  ELSE Err("NotFound")

\* transaction.create_app(app): appended to its workspace; ids are unique
TxCreateApp(s, app) ==
  IF app.id \in StoreIds(s)
  THEN [err |-> "Internal", store |-> s]
  ELSE [err |-> "Ok",
        store |-> [s EXCEPT ![app.workspace_id] = Append(@, app)]]

\* transaction.update_app(changeset): only present fields are applied
TxUpdateApp(s, changeset) ==
  IF changeset.id \notin StoreIds(s)
  THEN [err |-> "NotFound", store |-> s]
  ELSE [err |-> "Ok",
        store |-> [w \in Workspaces |->
                    [i \in DOMAIN s[w] |->
                      IF s[w][i].id = changeset.id /\ changeset.name # <<>>
                      THEN [s[w][i] EXCEPT !.name = changeset.name[1]]
                      ELSE s[w][i]]]]

RECURSIVE RemoveId(_, _)
RemoveId(apps, id) ==
  IF apps = <<>> THEN <<>>
  ELSE IF Head(apps).id = id THEN RemoveId(Tail(apps), id)
  ELSE <<Head(apps)>> \o RemoveId(Tail(apps), id)

\* transaction.delete_app(id)
TxDeleteApp(s, id) ==
  IF id \notin StoreIds(s)
  THEN [err |-> "NotFound", store |-> s]
  ELSE [err |-> "Ok", store |-> [w \in Workspaces |-> RemoveId(s[w], id)]]

\* remove position from (0-based), insert at position to (0-based)
MoveElement(apps, from, to) ==
  LET e == apps[from + 1]
      rest == [i \in 1..(Len(apps) - 1) |-> IF i < from + 1 THEN apps[i] ELSE apps[i + 1]]
  IN [i \in 1..Len(apps) |->
        IF i < to + 1 THEN rest[i]
        ELSE IF i = to + 1 THEN e
        ELSE rest[i - 1]]

\* transaction.move_app(id, from, to): a permutation of the app's workspace;
\* out-of-range positions are an error
TxMoveApp(s, id, from, to) ==
  IF id \notin StoreIds(s)
  THEN [err |-> "NotFound", store |-> s]
  ELSE LET w == (CHOOSE r \in StoreRows(s) : r.id = id).workspace_id IN
       IF from >= Len(s[w]) \/ to >= Len(s[w])
       THEN [err |-> "OutOfBounds", store |-> s]
       ELSE [err |-> "Ok", store |-> [s EXCEPT ![w] = MoveElement(@, from, to)]]

\* transaction.read_workspace_apps(workspace_id)
TxReadWorkspaceApps(s, workspace_id) == Ok(s[workspace_id])

\* trash_controller.read_trash_ids(&transaction)
ReadTrashIds(trash) == Ok(trash)

\* begin_transaction(F): commits the closure's store on Ok, rolls back on Err
BeginTransaction(s, r) == IF r.err = "Ok" THEN r.store ELSE s

(* --------------------------- notifications ------------------------------ *)
RECURSIVE Retain(_, _)
Retain(apps, trash) ==
  IF apps = <<>> THEN <<>>
  ELSE IF Head(apps).id \in trash THEN Retain(Tail(apps), trash)
  ELSE <<Head(apps)>> \o Retain(Tail(apps), trash)

\* read_workspace_apps: the workspace's rows with the trashed ids removed
ReadWorkspaceApps(workspace_id, trash, s) ==
  LET app_revs == TxReadWorkspaceApps(s, workspace_id) IN
  IF app_revs.err # "Ok" THEN Err(app_revs.err)
  ELSE LET ids == ReadTrashIds(trash) IN
       IF ids.err # "Ok" THEN Err(ids.err)
       ELSE Ok(Retain(app_revs.val, ids.val))

Note(ty, id, payload) == [id |-> id, ty |-> ty, payload |-> payload]

\* mutant: the payload is the workspace's rows, trashed ones included
NotifyAppsChangedUnfiltered(workspace_id, trash, s) ==
  LET r == TxReadWorkspaceApps(s, workspace_id) IN
  IF r.err # "Ok" THEN [err |-> r.err, notes |-> <<>>]
  ELSE [err |-> "Ok",
        notes |-> <<Note("DidUpdateWorkspaceApps", workspace_id, MapAppPB(r.val))>>]

\* notify_apps_changed: sends DidUpdateWorkspaceApps at once (inside the closure)
NotifyAppsChanged(workspace_id, trash, s) ==
  LET r == ReadWorkspaceApps(workspace_id, trash, s) IN
  IF r.err # "Ok" THEN [err |-> r.err, notes |-> <<>>]
  ELSE [err |-> "Ok",
        notes |-> <<Note("DidUpdateWorkspaceApps", workspace_id, MapAppPB(r.val))>>]

(* ------------------- transaction closures of the controller ------------ *)
\* mutant: the notification is sent before the insert
CreateAppOnLocalTxNotifyFirst(s, trash, app) ==
  LET n == NotifyAppsChanged(app.workspace_id, trash, s)
      c == TxCreateApp(s, app)
  IN IF c.err # "Ok" THEN [err |-> c.err, store |-> s, notes |-> n.notes]
     ELSE [err |-> "Ok", store |-> c.store, notes |-> n.notes]

\* closure of create_app_on_local: create_app, then notify_apps_changed
CreateAppOnLocalTx(s, trash, app) ==
  LET c == TxCreateApp(s, app) IN
  IF c.err # "Ok" THEN [err |-> c.err, store |-> s, notes |-> <<>>]
  ELSE LET n == NotifyAppsChanged(app.workspace_id, trash, c.store) IN
       IF n.err # "Ok" THEN [err |-> n.err, store |-> c.store, notes |-> <<>>]
       ELSE [err |-> "Ok", store |-> c.store, notes |-> n.notes]

\* mutant: the trash set is consulted before the row is read
ReadAppTxTrashFirst(s, trash, id) ==
  IF id \in trash THEN Ok(<<>>)
  ELSE LET app == TxReadApp(s, id) IN
       IF app.err # "Ok" THEN Err(app.err) ELSE Ok(<<app.val[1]>>)

\* closure of read_app: Ok(<<>>) is Ok(None), Ok(<<app>>) is Ok(Some(app))
ReadAppTx(s, trash, id) ==
  LET app == TxReadApp(s, id) IN
  IF app.err # "Ok" THEN Err(app.err)
  ELSE LET ids == ReadTrashIds(trash) IN
       IF ids.err # "Ok" THEN Err(ids.err)
       ELSE IF app.val[1].id \in ids.val THEN Ok(<<>>)
       ELSE Ok(<<app.val[1]>>)

\* mutant: the changeset drops the new name
AppChangesetNoName(params) == [id |-> params.id, name |-> <<>>]

\* AppChangeset::new(params)
AppChangeset(params) == [id |-> params.id, name |-> params.name]

\* closure of update_app: update_app, then read_app
UpdateAppTx(s, changeset) ==
  LET u == TxUpdateApp(s, changeset) IN
  IF u.err # "Ok" THEN [err |-> u.err, val |-> <<>>, store |-> s]
  ELSE LET app == TxReadApp(u.store, changeset.id) IN
       IF app.err # "Ok" THEN [err |-> app.err, val |-> <<>>, store |-> u.store]
       ELSE [err |-> "Ok", val |-> app.val, store |-> u.store]

\* mutant: the notification is published for every workspace
MoveAppTxNotifyingAll(s, trash, app_id, from, to) ==
  LET m == TxMoveApp(s, app_id, from, to) IN
  IF m.err # "Ok" THEN [err |-> m.err, store |-> s, notes |-> <<>>]
  ELSE [err |-> "Ok", store |-> m.store,
        notes |-> NotifyAppsChanged("W1", trash, m.store).notes
                    \o NotifyAppsChanged("W2", trash, m.store).notes]

\* mutant: equal positions return early, before the notification
MoveAppTxSkippingEqual(s, trash, app_id, from, to) ==
  LET m == TxMoveApp(s, app_id, from, to) IN
  IF m.err # "Ok" THEN [err |-> m.err, store |-> s, notes |-> <<>>]
  ELSE IF from = to THEN [err |-> "Ok", store |-> m.store, notes |-> <<>>]
  ELSE LET app == TxReadApp(m.store, app_id) IN
       [err |-> "Ok", store |-> m.store,
        notes |-> NotifyAppsChanged(app.val[1].workspace_id, trash, m.store).notes]

\* closure of move_app: move_app, read_app, notify_apps_changed
MoveAppTx(s, trash, app_id, from, to) ==
  LET m == TxMoveApp(s, app_id, from, to) IN
  IF m.err # "Ok" THEN [err |-> m.err, store |-> s, notes |-> <<>>]
  ELSE LET app == TxReadApp(m.store, app_id) IN
       IF app.err # "Ok" THEN [err |-> app.err, store |-> m.store, notes |-> <<>>]
       ELSE LET n == NotifyAppsChanged(app.val[1].workspace_id, trash, m.store) IN
            IF n.err # "Ok" THEN [err |-> n.err, store |-> m.store, notes |-> <<>>]
            ELSE [err |-> "Ok", store |-> m.store, notes |-> n.notes]

\* mutant: an absent id is skipped and the rows found are returned
RECURSIVE ReadLocalAppsTxSkipping(_, _, _)
ReadLocalAppsTxSkipping(s, ids, apps) ==
  IF ids = <<>> THEN Ok(apps)
  ELSE LET app == TxReadApp(s, Head(ids)) IN
       IF app.err # "Ok" THEN ReadLocalAppsTxSkipping(s, Tail(ids), apps)
       ELSE ReadLocalAppsTxSkipping(s, Tail(ids), apps \o app.val)

\* closure of read_local_apps: read each id in order, fail on the first absent
RECURSIVE ReadLocalAppsTx(_, _, _)
ReadLocalAppsTx(s, ids, apps) ==
  IF ids = <<>> THEN Ok(apps)
  ELSE LET app == TxReadApp(s, Head(ids)) IN
       IF app.err # "Ok" THEN Err(app.err)
       ELSE ReadLocalAppsTx(s, Tail(ids), apps \o app.val)

\* mutant: the row of each identifier is deleted before its workspace is notified
RECURSIVE NewTrashTxDeleting(_, _, _, _)
NewTrashTxDeleting(s, trash, items, notes) ==
  IF items = <<>> THEN [err |-> "Ok", store |-> s, notes |-> notes]
  ELSE LET app == TxReadApp(s, Head(items)) IN
       IF app.err # "Ok" THEN [err |-> app.err, store |-> s, notes |-> notes]
       ELSE LET d == TxDeleteApp(s, Head(items)).store
                n == NotifyAppsChanged(app.val[1].workspace_id, trash, d)
            IN NewTrashTxDeleting(d, trash, Tail(items), notes \o n.notes)

\* closure of the NewTrash | Putback arm: per identifier, read_app then
\* notify_apps_changed; the notifications already sent stay sent on a failure
RECURSIVE NewTrashTx(_, _, _, _)
NewTrashTx(s, trash, items, notes) ==
  IF items = <<>> THEN [err |-> "Ok", store |-> s, notes |-> notes]
  ELSE LET app == TxReadApp(s, Head(items)) IN
       IF app.err # "Ok" THEN [err |-> app.err, store |-> s, notes |-> notes]
       ELSE LET n == NotifyAppsChanged(app.val[1].workspace_id, trash, s) IN
            IF n.err # "Ok" THEN [err |-> n.err, store |-> s, notes |-> notes]
            ELSE NewTrashTx(s, trash, Tail(items), notes \o n.notes)

\* mutant: an identifier that is not persisted is skipped
RECURSIVE DeleteLoopSkipping(_, _, _)
DeleteLoopSkipping(s, items, notify_ids) ==
  IF items = <<>> THEN [err |-> "Ok", store |-> s, ids |-> notify_ids]
  ELSE LET app == TxReadApp(s, Head(items)) IN
       IF app.err # "Ok" THEN DeleteLoopSkipping(s, Tail(items), notify_ids)
       ELSE DeleteLoopSkipping(TxDeleteApp(s, Head(items)).store, Tail(items),
                               notify_ids \cup {app.val[1].workspace_id})

\* first loop of the Delete arm: read_app, delete_app, notify_ids.insert
RECURSIVE DeleteLoop(_, _, _)
DeleteLoop(s, items, notify_ids) ==
  IF items = <<>> THEN [err |-> "Ok", store |-> s, ids |-> notify_ids]
  ELSE LET app == TxReadApp(s, Head(items)) IN
       IF app.err # "Ok" THEN [err |-> app.err, store |-> s, ids |-> notify_ids]
       ELSE LET d == TxDeleteApp(s, Head(items)) IN
            IF d.err # "Ok" THEN [err |-> d.err, store |-> d.store, ids |-> notify_ids]
            ELSE DeleteLoop(d.store, Tail(items),
                            notify_ids \cup {app.val[1].workspace_id})

\* second loop of the Delete arm: notify_apps_changed per captured workspace,
\* in the (unspecified) iteration order of the HashSet
RECURSIVE NotifyLoop(_, _, _, _)
NotifyLoop(s, trash, order, notes) ==
  IF order = <<>> THEN [err |-> "Ok", store |-> s, notes |-> notes]
  ELSE LET n == NotifyAppsChanged(Head(order), trash, s) IN
       IF n.err # "Ok" THEN [err |-> n.err, store |-> s, notes |-> notes]
       ELSE NotifyLoop(s, trash, Tail(order), notes \o n.notes)

\* the iteration orders of a HashSet
Orders(S) ==
  {o \in [1..Cardinality(S) -> S] : \A i, j \in DOMAIN o : i # j => o[i] # o[j]}

\* mutant: the payloads are computed before the deletions are applied
DeleteTxNotifyingFirst(s, trash, items, order) ==
  LET d == DeleteLoop(s, items, {}) IN
  IF d.err # "Ok" THEN [err |-> d.err, store |-> d.store, notes |-> <<>>]
  ELSE LET n == NotifyLoop(s, trash, order, <<>>) IN
       [err |-> n.err, store |-> d.store, notes |-> n.notes]

\* closure of the Delete arm under one iteration order of notify_ids
DeleteTx(s, trash, items, order) ==
  LET d == DeleteLoop(s, items, {}) IN
  IF d.err # "Ok" THEN [err |-> d.err, store |-> d.store, notes |-> <<>>]
  ELSE NotifyLoop(d.store, trash, order, <<>>)

\* the workspaces captured by the Delete arm's first loop
DeleteNotifyIds(s, items) == DeleteLoop(s, items, {}).ids

(* ------------------------------- state ---------------------------------- *)
VARIABLES
  persistence,        \* FolderPersistence: workspace -> ordered app rows
  trash_ids,          \* TrashController: the set of trashed ids
  lastWorkspaceApps,  \* last DidUpdateWorkspaceApps payload per workspace (<<>>: none yet)
  lastApp,            \* last DidUpdateApp payload per app id (<<>>: none yet)
  calls,              \* per caller: the user-initiated call in progress
  remote,             \* per caller: the detached task of update_app_on_server
  lst,                \* per listener task: its position in the loop
  rx,                 \* per listener task: its broadcast receiver's queue
  events,             \* per slot: a trash event whose ack channel is open
  closed,             \* the trash event stream is closed (its senders are dropped)
  lastOp              \* the step taken last and what it returned

vars == <<persistence, trash_ids, lastWorkspaceApps, lastApp, calls, remote,
          lst, rx, events, closed, lastOp>>

IdleCall == [app |-> <<>>, pc |-> "idle", committed |-> FALSE, notified |-> FALSE]

OffListener == [pc |-> "off", ev |-> 0, res |-> ""]

NoOp == [id |-> "", val |-> <<>>, from |-> 0, to |-> 0, notes |-> <<>>,
         items |-> <<>>, res |-> "", op |-> "", who |-> "", kind |-> "", tx |-> 0,
         txs |-> <<>>, acks |-> <<>>, settled |-> FALSE, lsn |-> 0]

\* sequences of identifiers of length lo..MaxItems
IdLists(lo) == UNION {[1..n -> AppIds] : n \in lo..MaxItems}

Positions == 0..2

EventKinds == {"NewTrash", "Putback", "Delete"}

Init ==
  /\ persistence = [w \in Workspaces |-> <<>>]
  /\ trash_ids = {}
  /\ lastWorkspaceApps = [w \in Workspaces |-> <<>>]
  /\ lastApp = [id \in AppIds |-> <<>>]
  /\ calls = [c \in Callers |-> IdleCall]
  /\ remote = [c \in Callers |-> "none"]
  /\ lst = [l \in Listeners |-> OffListener]
  /\ rx = [l \in Listeners |-> <<>>]
  /\ events = [e \in Slots |-> <<>>]
  /\ closed = FALSE
  /\ lastOp = NoOp

\* the record of the previous step has been taken in
Ready == lastOp = NoOp

Free(c) == calls[c].pc = "idle" /\ remote[c] = "none"

(* ------------------------------ operations ------------------------------ *)
\* initialize(): listen_trash_controller_event() subscribes and spawns a task
Initialize ==
  /\ Ready
  /\ \E l \in Listeners :
       /\ lst[l].pc = "off"
       /\ \A k \in Listeners : k < l => lst[k].pc # "off"
       /\ lst' = [lst EXCEPT ![l] = [pc |-> "recv", ev |-> 0, res |-> ""]]
  /\ lastOp' = [NoOp EXCEPT !.op = "initialize", !.res = "Ok"]
  /\ UNCHANGED <<closed, persistence, trash_ids, lastWorkspaceApps, lastApp, calls, remote,
                 rx, events>>

\* create_app_on_server: user.token()?, then cloud_service.create_app().await?
CreateAppOnServer(c, params) ==
  /\ Ready
  /\ Free(c)
  /\ \E token \in BOOLEAN, cloud \in {"Network"} \cup {id \in AppIds : HomeOf(id) = params.workspace_id} :
       IF ~token
       THEN /\ lastOp' = [NoOp EXCEPT !.op = "create_app_from_params", !.who = c,
                                      !.res = "Unauthorized"]
            /\ UNCHANGED calls
       ELSE IF cloud = "Network"
       THEN /\ lastOp' = [NoOp EXCEPT !.op = "create_app_from_params", !.who = c,
                                      !.res = "Network"]
            /\ UNCHANGED calls
       ELSE /\ calls' = [calls EXCEPT ![c] =
                           [IdleCall EXCEPT !.pc = "create_on_local",
                                            !.app = <<AppRevision(cloud, params.name)>>]]
            /\ lastOp' = [NoOp EXCEPT !.op = "create_app_on_server", !.who = c,
                                      !.res = "Ok", !.id = cloud]
  /\ UNCHANGED <<closed, persistence, trash_ids, lastWorkspaceApps, lastApp, remote,
                 lst, rx, events>>

\* create_app_on_local(app): one transaction, Ok(app.into())
LocalCreate(op, c, app) ==
  LET r == CreateAppOnLocalTx(persistence, trash_ids, app) IN
  /\ persistence' = BeginTransaction(persistence, r)
  /\ lastOp' = [NoOp EXCEPT !.op = op, !.who = c, !.res = r.err, !.id = app.id,
                            !.val = IF r.err = "Ok" THEN <<AppPB(app)>> ELSE <<>>,
                            !.notes = r.notes, !.tx = 1]

\* mutant: the app returned by the cloud is handed back without the local insert
CreateAppFromParamsRemoteOnly(c) ==
  /\ Ready
  /\ calls[c].pc = "create_on_local"
  /\ lastOp' = [NoOp EXCEPT !.op = "create_app_from_params", !.who = c, !.res = "Ok",
                            !.id = calls[c].app[1].id,
                            !.val = <<AppPB(calls[c].app[1])>>]
  /\ calls' = [calls EXCEPT ![c] = IdleCall]
  /\ UNCHANGED <<closed, persistence, trash_ids, lastWorkspaceApps, lastApp, remote,
                 lst, rx, events>>

\* create_app_from_params, second half: create_app_on_local(app).await
CreateAppFromParams(c) ==
  /\ Ready
  /\ calls[c].pc = "create_on_local"
  /\ LocalCreate("create_app_from_params", c, calls[c].app[1])
  /\ calls' = [calls EXCEPT ![c] = IdleCall]
  /\ UNCHANGED <<closed, trash_ids, lastWorkspaceApps, lastApp, remote, lst, rx, events>>

CreateAppOnLocal(app) ==
  /\ Ready
  /\ LocalCreate("create_app_on_local", "", app)
  /\ UNCHANGED <<closed, trash_ids, lastWorkspaceApps, lastApp, calls, remote, lst, rx, events>>

ReadApp(id) ==
  LET r == ReadAppTx(persistence, trash_ids, id) IN
  /\ Ready
  /\ lastOp' = [NoOp EXCEPT !.op = "read_app", !.res = r.err, !.id = id,
                            !.val = r.val, !.tx = 1]
  /\ UNCHANGED <<closed, persistence, trash_ids, lastWorkspaceApps, lastApp, calls, remote,
                 lst, rx, events>>

\* mutant: the remote update is spawned with the transaction, before the
\* notification
UpdateAppCommitSpawning(c, params) ==
  LET r == UpdateAppTx(persistence, AppChangeset(params)) IN
  /\ Ready
  /\ Free(c)
  /\ persistence' = BeginTransaction(persistence, r)
  /\ IF r.err = "Ok"
     THEN /\ calls' = [calls EXCEPT ![c] =
                         [app |-> <<AppPB(r.val[1])>>, pc |-> "committed",
                          committed |-> TRUE, notified |-> FALSE]]
          /\ remote' = [remote EXCEPT ![c] = "spawned"]
          /\ lastOp' = [NoOp EXCEPT !.op = "update_app_commit", !.who = c, !.res = "Ok",
                                    !.id = params.id, !.tx = 1]
     ELSE /\ UNCHANGED <<calls, remote>>
          /\ lastOp' = [NoOp EXCEPT !.op = "update_app", !.who = c, !.res = r.err,
                                    !.id = params.id, !.tx = 1]
  /\ UNCHANGED <<closed, trash_ids, lastWorkspaceApps, lastApp, lst, rx, events>>

\* update_app up to the end of its transaction (.await?.into())
UpdateAppCommit(c, params) ==
  LET r == UpdateAppTx(persistence, AppChangeset(params)) IN
  /\ Ready
  /\ Free(c)
  /\ persistence' = BeginTransaction(persistence, r)
  /\ IF r.err = "Ok"
     THEN /\ calls' = [calls EXCEPT ![c] =
                         [app |-> <<AppPB(r.val[1])>>, pc |-> "committed",
                          committed |-> TRUE, notified |-> FALSE]]
          /\ lastOp' = [NoOp EXCEPT !.op = "update_app_commit", !.who = c, !.res = "Ok",
                                    !.id = params.id, !.tx = 1]
     ELSE /\ UNCHANGED calls
          /\ lastOp' = [NoOp EXCEPT !.op = "update_app", !.who = c, !.res = r.err,
                                    !.id = params.id, !.tx = 1]
  /\ UNCHANGED <<closed, trash_ids, lastWorkspaceApps, lastApp, remote, lst, rx, events>>

\* send_notification(&app_id, DidUpdateApp).payload(app).send()
UpdateAppNotify(c) ==
  /\ Ready
  /\ calls[c].pc = "committed"
  /\ calls' = [calls EXCEPT ![c].pc = "notified", ![c].notified = TRUE]
  /\ lastOp' = [NoOp EXCEPT !.op = "update_app_notify", !.who = c, !.res = "Ok",
                            !.id = calls[c].app[1].id,
                            !.notes = <<Note("DidUpdateApp", calls[c].app[1].id, calls[c].app[1])>>]
  /\ UNCHANGED <<closed, persistence, trash_ids, lastWorkspaceApps, lastApp, remote, lst, rx, events>>

\* self.update_app_on_server(params)?; Ok(())
UpdateAppOnServer(c) ==
  /\ Ready
  /\ calls[c].pc = "notified"
  /\ \E token \in BOOLEAN :
       IF ~token
       THEN /\ calls' = [calls EXCEPT ![c] = IdleCall]
            /\ UNCHANGED remote
            /\ lastOp' = [NoOp EXCEPT !.op = "update_app", !.who = c,
                                      !.res = "Unauthorized", !.id = calls[c].app[1].id]
       ELSE /\ calls' = [calls EXCEPT ![c].pc = "idle", ![c].app = <<>>]
            /\ remote' = [remote EXCEPT ![c] = "spawned"]
            /\ lastOp' = [NoOp EXCEPT !.op = "update_app", !.who = c, !.res = "Ok",
                                      !.id = calls[c].app[1].id]
  /\ UNCHANGED <<closed, persistence, trash_ids, lastWorkspaceApps, lastApp, lst, rx, events>>

\* the spawned task calls server.update_app(&token, params)
RemoteUpdateBegin(c) ==
  /\ Ready
  /\ remote[c] = "spawned"
  /\ remote' = [remote EXCEPT ![c] = "running"]
  /\ lastOp' = [NoOp EXCEPT !.op = "remote_update_begin", !.who = c]
  /\ UNCHANGED <<closed, persistence, trash_ids, lastWorkspaceApps, lastApp, calls, lst, rx, events>>

\* the remote call ends: Ok(_) => {}, Err(e) => log::error!
RemoteUpdateEnd(c) ==
  /\ Ready
  /\ remote[c] = "running"
  /\ remote' = [remote EXCEPT ![c] = "none"]
  /\ calls' = [calls EXCEPT ![c] = IdleCall]
  /\ \E res \in {"Ok", "Network"} :
       lastOp' = [NoOp EXCEPT !.op = "remote_update_end", !.who = c, !.res = res]
  /\ UNCHANGED <<closed, persistence, trash_ids, lastWorkspaceApps, lastApp, lst, rx, events>>

MoveApp(app_id, from, to) ==
  LET r == MoveAppTx(persistence, trash_ids, app_id, from, to) IN
  /\ Ready
  /\ persistence' = BeginTransaction(persistence, r)
  /\ lastOp' = [NoOp EXCEPT !.op = "move_app", !.res = r.err, !.id = app_id,
                            !.notes = r.notes, !.tx = 1, !.from = from, !.to = to]
  /\ UNCHANGED <<closed, trash_ids, lastWorkspaceApps, lastApp, calls, remote, lst, rx, events>>

ReadLocalApps(ids) ==
  LET r == ReadLocalAppsTx(persistence, ids, <<>>) IN
  /\ Ready
  /\ lastOp' = [NoOp EXCEPT !.op = "read_local_apps", !.res = r.err, !.val = r.val,
                            !.items = ids, !.tx = 1]
  /\ UNCHANGED <<closed, persistence, trash_ids, lastWorkspaceApps, lastApp, calls, remote,
                 lst, rx, events>>

(* ------------------------- trash events --------------------------------- *)
Event(kind, ty, items) ==
  [ty |-> ty, items |-> items, kind |-> kind, txs |-> <<>>, acks |-> <<>>]

Subscribed == {l \in Listeners : lst[l].pc # "off"}

\* the receivers that still hold event e (queued, or being handled)
Holders(e) == {l \in Listeners : lst[l].ev = e \/ e \in Range(rx[l])}

\* broadcast send: every subscribed receiver gets the event; with no receiver
\* the send fails and the event (with its ack sender) is dropped
Publish(ev) ==
  IF Subscribed = {}
  THEN UNCHANGED <<events, rx>>
  ELSE \E e \in Slots :
         /\ events[e] = <<>>
         /\ \A k \in Slots : k < e => events[k] # <<>>
         /\ events' = [events EXCEPT ![e] = <<ev>>]
         /\ rx' = [l \in Listeners |-> IF l \in Subscribed THEN Append(rx[l], e) ELSE rx[l]]

\* TrashController: the trash id set is updated, then the event is published
EmitTrashApp(kind, items) ==
  /\ Ready
  /\ ~closed
  /\ Publish(Event(kind, "TrashApp", items))
  /\ trash_ids' = IF kind = "NewTrash" THEN trash_ids \cup Range(items)
                  ELSE trash_ids \ Range(items)
  /\ lastOp' = [NoOp EXCEPT !.op = "emit", !.kind = kind, !.items = items]
  /\ UNCHANGED <<closed, persistence, lastWorkspaceApps, lastApp, calls, remote, lst>>

\* an event about another kind of entity (a view)
EmitTrashView ==
  /\ Ready
  /\ ~closed
  /\ Subscribed # {}
  /\ Publish(Event("NewTrash", "TrashView", <<"v1">>))
  /\ lastOp' = [NoOp EXCEPT !.op = "emit", !.kind = "NewTrash", !.items = <<"v1">>]
  /\ UNCHANGED <<closed, persistence, trash_ids, lastWorkspaceApps, lastApp, calls, remote, lst>>

\* event.select(TrashType::TrashApp)
Select(ev) == IF ev.ty = "TrashApp" THEN <<ev>> ELSE <<>>

\* the event's ack channel closes when its last receiver lets go of it
Release(evs, e, l) == IF Holders(e) = {l} THEN [evs EXCEPT ![e] = <<>>] ELSE evs

\* mutant: the newest queued event is taken first
RecvTakingLast(l) ==
  /\ Ready
  /\ lst[l].pc = "recv"
  /\ rx[l] # <<>>
  /\ rx' = [rx EXCEPT ![l] = SubSeq(@, 1, Len(@) - 1)]
  /\ LET e == rx[l][Len(rx[l])] IN
     IF Select(events[e][1]) # <<>>
     THEN /\ lst' = [lst EXCEPT ![l] = [pc |-> "handle", ev |-> e, res |-> ""]]
          /\ UNCHANGED events
          /\ lastOp' = [NoOp EXCEPT !.op = "recv", !.lsn = l]
     ELSE /\ UNCHANGED lst
          /\ events' = Release(events, e, l)
          /\ lastOp' = [NoOp EXCEPT !.op = "recv_filtered", !.lsn = l]
  /\ UNCHANGED <<closed, persistence, trash_ids, lastWorkspaceApps, lastApp, calls, remote>>

\* one iteration of the listener loop up to stream.next().await
Recv(l) ==
  /\ Ready
  /\ lst[l].pc = "recv"
  /\ rx[l] # <<>>
  /\ rx' = [rx EXCEPT ![l] = Tail(@)]
  /\ LET e == Head(rx[l]) IN
     IF Select(events[e][1]) # <<>>
     THEN /\ lst' = [lst EXCEPT ![l] = [pc |-> "handle", ev |-> e, res |-> ""]]
          /\ UNCHANGED events
          /\ lastOp' = [NoOp EXCEPT !.op = "recv", !.lsn = l]
     ELSE /\ UNCHANGED lst
          /\ events' = Release(events, e, l)
          /\ lastOp' = [NoOp EXCEPT !.op = "recv_filtered", !.lsn = l]
  /\ UNCHANGED <<closed, persistence, trash_ids, lastWorkspaceApps, lastApp, calls, remote>>

\* rx.recv() returns Err(Lagged): the oldest event queued for the receiver is
\* lost; Err(_e) => None, and the loop goes on to its next receive
RecvLagged(l) ==
  /\ Ready
  /\ lst[l].pc = "recv"
  /\ rx[l] # <<>>
  /\ rx' = [rx EXCEPT ![l] = Tail(@)]
  /\ events' = Release(events, Head(rx[l]), l)
  /\ lastOp' = [NoOp EXCEPT !.op = "recv_error", !.lsn = l, !.res = "Lagged"]
  /\ UNCHANGED <<closed, persistence, trash_ids, lastWorkspaceApps, lastApp, calls,
                 remote, lst>>

\* rx.recv() returns Err(Closed): Err(_e) => None, stream.next() is None and
\* the loop goes on to its next receive
RecvClosed(l) ==
  /\ Ready
  /\ lst[l].pc = "recv"
  /\ rx[l] = <<>>
  /\ closed
  /\ lastOp' = [NoOp EXCEPT !.op = "recv_error", !.lsn = l, !.res = "Closed"]
  /\ UNCHANGED <<closed, persistence, trash_ids, lastWorkspaceApps, lastApp, calls,
                 remote, lst, rx, events>>

\* the senders of the trash event stream are dropped
CloseStream ==
  /\ Ready
  /\ ~closed
  /\ closed' = TRUE
  /\ lastOp' = [NoOp EXCEPT !.op = "close"]
  /\ UNCHANGED <<persistence, trash_ids, lastWorkspaceApps, lastApp, calls, remote,
                 lst, rx, events>>

\* the transaction of handle_trash_event under one iteration order of notify_ids
HandleTx(s, trash, ev, order) ==
  IF ev.kind = "Delete"
  THEN DeleteTx(s, trash, ev.items, order)
  ELSE NewTrashTx(s, trash, ev.items, <<>>)

\* mutant: a failed transaction returns early (result?), before ret.send
HandleTrashEventReturning(l) ==
  /\ Ready
  /\ lst[l].pc = "handle"
  /\ LET e == lst[l].ev
         ev == events[e][1]
     IN \E order \in Orders(IF ev.kind = "Delete"
                            THEN DeleteNotifyIds(persistence, ev.items) ELSE {}) :
          LET r == HandleTx(persistence, trash_ids, ev, order)
              sent == [events EXCEPT ![e][1].txs = Append(@, r.err)]
          IN
          /\ persistence' = BeginTransaction(persistence, r)
          /\ IF r.err = "Ok"
             THEN /\ lst' = [lst EXCEPT ![l].pc = "ack", ![l].res = r.err]
                  /\ events' = sent
             ELSE /\ lst' = [lst EXCEPT ![l] = [pc |-> "recv", ev |-> 0, res |-> ""]]
                  /\ events' = Release(sent, e, l)
          /\ lastOp' = [NoOp EXCEPT !.op = "handle_trash_event", !.lsn = l, !.res = r.err,
                                    !.kind = ev.kind, !.items = ev.items,
                                    !.notes = r.notes, !.tx = 1]
  /\ UNCHANGED <<closed, trash_ids, lastWorkspaceApps, lastApp, calls, remote, rx>>

\* handle_trash_event up to the end of its transaction
HandleTrashEvent(l) ==
  /\ Ready
  /\ lst[l].pc = "handle"
  /\ LET e == lst[l].ev
         ev == events[e][1]
     IN \E order \in Orders(IF ev.kind = "Delete"
                            THEN DeleteNotifyIds(persistence, ev.items) ELSE {}) :
          LET r == HandleTx(persistence, trash_ids, ev, order) IN
          /\ persistence' = BeginTransaction(persistence, r)
          /\ lst' = [lst EXCEPT ![l].pc = "ack", ![l].res = r.err]
          /\ events' = [events EXCEPT ![e][1].txs = Append(@, r.err)]
          /\ lastOp' = [NoOp EXCEPT !.op = "handle_trash_event", !.lsn = l, !.res = r.err,
                                    !.kind = ev.kind, !.items = ev.items,
                                    !.notes = r.notes, !.tx = 1]
  /\ UNCHANGED <<closed, trash_ids, lastWorkspaceApps, lastApp, calls, remote, rx>>

\* let _ = ret.send(result).await
Ack(l) ==
  /\ Ready
  /\ lst[l].pc = "ack"
  /\ LET e == lst[l].ev
         acked == [events EXCEPT ![e][1].acks = Append(@, lst[l].res)]
     IN /\ events' = Release(acked, e, l)
        /\ lastOp' = [NoOp EXCEPT !.op = "ack", !.lsn = l, !.res = lst[l].res,
                                  !.kind = events[e][1].kind, !.items = events[e][1].items,
                                  !.txs = acked[e][1].txs, !.acks = acked[e][1].acks,
                                  !.settled = (Holders(e) = {l})]
  /\ lst' = [lst EXCEPT ![l] = [pc |-> "recv", ev |-> 0, res |-> ""]]
  /\ UNCHANGED <<closed, persistence, trash_ids, lastWorkspaceApps, lastApp, calls, remote, rx>>

(* ------------------------ the notification bus --------------------------- *)
RECURSIVE ApplyNotes(_, _, _)
ApplyNotes(last, ty, notes) ==
  IF notes = <<>> THEN last
  ELSE ApplyNotes(IF Head(notes).ty = ty
                  THEN [last EXCEPT ![Head(notes).id] = <<Head(notes).payload>>]
                  ELSE last,
                  ty, Tail(notes))

\* the subscriber takes in the notifications of the step just taken
Observe ==
  /\ ~Ready
  /\ lastOp' = NoOp
  /\ lastWorkspaceApps' = ApplyNotes(lastWorkspaceApps, "DidUpdateWorkspaceApps", lastOp.notes)
  /\ lastApp' = ApplyNotes(lastApp, "DidUpdateApp", lastOp.notes)
  /\ UNCHANGED <<closed, persistence, trash_ids, calls, remote, lst, rx, events>>

\* the record of the step just taken is dropped, the payloads are not kept
Forget ==
  /\ ~Ready
  /\ lastOp' = NoOp
  /\ UNCHANGED <<closed, persistence, trash_ids, lastWorkspaceApps, lastApp, calls, remote,
                 lst, rx, events>>

(* ---------------------------- specifications ---------------------------- *)
\* every step of the controller and of its collaborators
Next ==
  \/ Initialize
  \/ \E c \in Callers, params \in CreateAppParams : CreateAppOnServer(c, params)
  \/ \E c \in Callers : CreateAppFromParams(c)
  \/ \E app \in AppRevisions : CreateAppOnLocal(app)
  \/ \E id \in AppIds : ReadApp(id)
  \/ \E c \in Callers, params \in UpdateAppParams : UpdateAppCommit(c, params)
  \/ \E c \in Callers : UpdateAppNotify(c)
  \/ \E c \in Callers : UpdateAppOnServer(c)
  \/ \E c \in Callers : RemoteUpdateBegin(c)
  \/ \E c \in Callers : RemoteUpdateEnd(c)
  \/ \E id \in AppIds, from \in Positions, to \in Positions : MoveApp(id, from, to)
  \/ \E ids \in IdLists(0) : ReadLocalApps(ids)
  \/ \E kind \in EventKinds, items \in IdLists(1) : EmitTrashApp(kind, items)
  \/ EmitTrashView
  \/ \E l \in Listeners : Recv(l)
  \/ \E l \in Listeners : RecvLagged(l)
  \/ \E l \in Listeners : RecvClosed(l)
  \/ CloseStream
  \/ \E l \in Listeners : HandleTrashEvent(l)
  \/ \E l \in Listeners : Ack(l)
  \/ Observe

Spec == Init /\ [][Next]_vars

NoEvent == \A e \in Slots : events[e] = <<>>

\* the trash listener of a controller initialized once, one event at a time,
\* over a store filled by create_app_on_local
TrashNext ==
  \/ (Subscribed = {} /\ Initialize)
  \/ \E app \in AppRevisions : CreateAppOnLocal(app)
  \/ \E id \in AppIds : ReadApp(id)
  \/ \E kind \in EventKinds, items \in IdLists(1) : (NoEvent /\ EmitTrashApp(kind, items))
  \/ (NoEvent /\ EmitTrashView)
  \/ \E l \in Listeners : Recv(l)
  \/ \E l \in Listeners : HandleTrashEvent(l)
  \/ \E l \in Listeners : Ack(l)
  \/ Forget

TrashSpec == Init /\ [][TrashNext]_vars

\* the user-initiated operations of one caller, with the trash set changing
\* under them (no listener is subscribed)
Solo == {"c1"}

UserNext ==
  \/ \E c \in Solo, params \in CreateAppParams : CreateAppOnServer(c, params)
  \/ \E c \in Solo : CreateAppFromParams(c)
  \/ \E app \in AppRevisions : CreateAppOnLocal(app)
  \/ \E id \in AppIds : ReadApp(id)
  \/ \E c \in Solo, params \in UpdateAppParams : UpdateAppCommit(c, params)
  \/ \E c \in Solo : UpdateAppNotify(c)
  \/ \E c \in Solo : UpdateAppOnServer(c)
  \/ \E c \in Solo : RemoteUpdateBegin(c)
  \/ \E c \in Solo : RemoteUpdateEnd(c)
  \/ \E id \in AppIds, from \in Positions, to \in Positions : MoveApp(id, from, to)
  \/ \E ids \in IdLists(0) : ReadLocalApps(ids)
  \/ \E kind \in EventKinds, items \in IdLists(1) : EmitTrashApp(kind, items)
  \/ Forget

UserSpec == Init /\ [][UserNext]_vars

\* the listener tasks of a controller initialized any number of times, one
\* event at a time, over the app a1
ListenNext ==
  \/ Initialize
  \/ CreateAppOnLocal(AppRevision("a1", "A"))
  \/ \E kind \in EventKinds : (NoEvent /\ EmitTrashApp(kind, <<"a1">>))
  \/ (NoEvent /\ EmitTrashView)
  \/ \E l \in Listeners : Recv(l)
  \/ \E l \in Listeners : HandleTrashEvent(l)
  \/ \E l \in Listeners : Ack(l)
  \/ Forget

ListenSpec == Init /\ [][ListenNext]_vars

\* every operation that changes workspace W1, with a subscriber of the
\* notification bus keeping the last payload per key
NotifyIds == {"a1", "a2"}

NotifyNext ==
  \/ (Subscribed = {} /\ Initialize)
  \/ \E c \in Solo : CreateAppOnServer(c, [name |-> "A", workspace_id |-> "W1"])
  \/ \E c \in Solo : CreateAppFromParams(c)
  \/ \E id \in NotifyIds : CreateAppOnLocal(AppRevision(id, "A"))
  \/ \E c \in Solo : UpdateAppCommit(c, [id |-> "a1", name |-> <<"B">>])
  \/ \E c \in Solo : UpdateAppNotify(c)
  \/ \E c \in Solo : UpdateAppOnServer(c)
  \/ \E c \in Solo : RemoteUpdateBegin(c)
  \/ \E c \in Solo : RemoteUpdateEnd(c)
  \/ \E id \in NotifyIds, from \in Positions, to \in Positions : MoveApp(id, from, to)
  \/ \E kind \in EventKinds, id \in NotifyIds : (NoEvent /\ EmitTrashApp(kind, <<id>>))
  \/ \E l \in Listeners : Recv(l)
  \/ \E l \in Listeners : HandleTrashEvent(l)
  \/ \E l \in Listeners : Ack(l)
  \/ Observe

NotifySpec == Init /\ [][NotifyNext]_vars

\* the listener of a controller initialized once, over a stream that lags and
\* closes
StreamNext ==
  \/ (Subscribed = {} /\ Initialize)
  \/ CreateAppOnLocal(AppRevision("a1", "A"))
  \/ \E kind \in EventKinds : EmitTrashApp(kind, <<"a1">>)
  \/ EmitTrashView
  \/ \E l \in Listeners : Recv(l)
  \/ \E l \in Listeners : RecvLagged(l)
  \/ \E l \in Listeners : RecvClosed(l)
  \/ CloseStream
  \/ \E l \in Listeners : HandleTrashEvent(l)
  \/ \E l \in Listeners : Ack(l)
  \/ Forget

StreamSpec == Init /\ [][StreamNext]_vars

\* creation by one caller, with the trash controller trashing and putting
\* back apps that exist (ids minted by the cloud are not in the trash)
CreateNext ==
  \/ \E c \in Solo, params \in CreateAppParams : CreateAppOnServer(c, params)
  \/ \E c \in Solo : CreateAppFromParams(c)
  \/ \E app \in AppRevisions : CreateAppOnLocal(app)
  \/ \E id \in AppIds : ReadApp(id)
  \/ \E kind \in {"NewTrash", "Putback"}, items \in IdLists(1) :
       (Range(items) \subseteq StoreIds(persistence) /\ EmitTrashApp(kind, items))
  \/ Forget

CreateSpec == Init /\ [][CreateNext]_vars

\* update_app called by several tasks at once on the app a1, with a subscriber
\* of the notification bus keeping the last payload per key
RaceNext ==
  \/ CreateAppOnLocal(AppRevision("a1", "A"))
  \/ \E c \in Callers, name \in Names :
       UpdateAppCommit(c, [id |-> "a1", name |-> <<name>>])
  \/ \E c \in Callers : UpdateAppNotify(c)
  \/ \E c \in Callers : UpdateAppOnServer(c)
  \/ \E c \in Callers : RemoteUpdateBegin(c)
  \/ \E c \in Callers : RemoteUpdateEnd(c)
  \/ Observe

RaceSpec == Init /\ [][RaceNext]_vars

\* the listener of a controller initialized once, with several events in
\* flight, over the app a1
SerialNext ==
  \/ (Subscribed = {} /\ Initialize)
  \/ CreateAppOnLocal(AppRevision("a1", "A"))
  \/ \E kind \in EventKinds : EmitTrashApp(kind, <<"a1">>)
  \/ EmitTrashView
  \/ \E l \in Listeners : Recv(l)
  \/ \E l \in Listeners : HandleTrashEvent(l)
  \/ \E l \in Listeners : Ack(l)
  \/ Forget

SerialSpec == Init /\ [][SerialNext]_vars

(* ------------------------------- claims ---------------------------------- *)
Exists(id) == id \in StoreIds(persistence)

RowOf(id) == CHOOSE r \in StoreRows(persistence) : r.id = id

\* C1: read_app(id) returns None iff the id is persisted and in the trash set
\* read in the same transaction, Some(row) iff it is persisted and not trashed,
\* and fails with NotFound iff it is not persisted (also when it is trashed).
C1_ReadApp ==
  lastOp.op = "read_app" =>
    LET id == lastOp.id IN
    /\ lastOp.res \in {"Ok", "NotFound"}
    /\ (lastOp.res = "Ok" /\ lastOp.val = <<>>) <=> (Exists(id) /\ id \in trash_ids)
    /\ (lastOp.res = "Ok" /\ lastOp.val # <<>>) <=> (Exists(id) /\ id \notin trash_ids)
    /\ (lastOp.res = "Ok" /\ lastOp.val # <<>>) => lastOp.val = <<RowOf(id)>>
    /\ lastOp.res = "NotFound" <=> ~Exists(id)

\* a trashed id that is missing from persistence was read: NotFound, not None
C1_Witness ==
  /\ lastOp.op = "read_app"
  /\ lastOp.id \in trash_ids
  /\ ~Exists(lastOp.id)
  /\ lastOp.res = "NotFound"
  /\ \E id \in trash_ids : Exists(id)

\* C3: a failed create_app_from_params leaves persistence as it was and
\* publishes nothing; without a token or with a failed cloud call no
\* transaction is opened.
C3_FailedCreate ==
  [][/\ lastOp'.op = "create_app_on_server" =>
          /\ persistence' = persistence
          /\ lastOp'.notes = <<>>
          /\ lastOp'.tx = 0
     /\ (lastOp'.op = "create_app_from_params" /\ lastOp'.res # "Ok") =>
          /\ persistence' = persistence
          /\ lastOp'.notes = <<>>
          /\ lastWorkspaceApps' = lastWorkspaceApps
          /\ lastApp' = lastApp
          /\ lastOp'.res \in {"Unauthorized", "Network"} => lastOp'.tx = 0
          /\ lastOp'.res \notin {"Unauthorized", "Network"} => lastOp'.tx = 1]_vars

\* the local insert of a cloud-created app failed over a non-empty store
C3_Witness ==
  /\ lastOp.op = "create_app_from_params"
  /\ lastOp.res = "Internal"
  /\ lastOp.tx = 1
  /\ Exists(lastOp.id)

UserOps == {"create_app_from_params", "create_app_on_local", "update_app", "move_app"}

\* C5: a user-initiated operation that returns an error has rolled its
\* transaction back (persistence as before the call) and has published no
\* notification; also update_app without a token and move_app out of range.
C5_ErrorsLeaveNoTrace ==
  [][(lastOp'.op \in UserOps /\ lastOp'.res # "Ok") =>
       /\ persistence' = persistence
       /\ lastOp'.notes = <<>>
       /\ lastOp'.op = "update_app" /\ lastOp'.who \in Callers =>
            /\ ~calls[lastOp'.who].committed
            /\ ~calls[lastOp'.who].notified]_vars

\* C10: DidUpdateApp is published after the local transaction has committed
\* and before the remote update_app call begins; update_app returns without
\* waiting for the remote call.
C10_UpdateOrder ==
  [][\A c \in Callers :
       /\ calls'[c].notified => calls'[c].committed
       /\ remote'[c] # "none" => calls'[c].notified
       /\ (lastOp'.op = "update_app_notify" /\ lastOp'.who = c) =>
            /\ calls[c].committed
            /\ remote[c] = "none" /\ remote'[c] = "none"
            /\ lastOp'.notes = <<Note("DidUpdateApp", lastOp'.id, calls[c].app[1])>>
            /\ persistence' = persistence
       /\ (lastOp'.op = "update_app" /\ lastOp'.who = c /\ lastOp'.res = "Ok") =>
            /\ calls[c].notified
            /\ remote'[c] = "spawned"]_vars

\* update_app has returned while its remote call is still running
C10_Witness ==
  \E c \in Callers :
    /\ calls[c].pc = "idle"
    /\ calls[c].notified
    /\ remote[c] = "running"

Distinct(s) == \A i, j \in DOMAIN s : i # j => s[i] # s[j]

\* the rows of a store without the given ids, in their order
Without(s, ids) ==
  LET Keep(r) == r.id \notin ids IN [w \in Workspaces |-> SelectSeq(s[w], Keep)]

Count(notes, ty, key) == Cardinality({i \in DOMAIN notes : notes[i].ty = ty /\ notes[i].id = key})

\* C6: a trash event whose handling transaction fails publishes no
\* DidUpdateWorkspaceApps notification, and the failure is what is acknowledged.
C6_FailedEventSilent ==
  (lastOp.op = "handle_trash_event" /\ lastOp.res # "Ok") =>
    /\ lastOp.notes = <<>>
    /\ lst[lastOp.lsn].pc = "ack"
    /\ lst[lastOp.lsn].res = lastOp.res

\* C7: a Delete event removes every listed row and is acknowledged Ok, or
\* (a listed id missing or repeated) removes none, leaves persistence as it
\* was and is acknowledged Err.
C7_DeleteAtomic ==
  [][(lastOp'.op = "handle_trash_event" /\ lastOp'.kind = "Delete") =>
       LET items == lastOp'.items IN
       /\ lst'[lastOp'.lsn].res = lastOp'.res
       /\ IF Range(items) \subseteq StoreIds(persistence) /\ Distinct(items)
          THEN /\ lastOp'.res = "Ok"
               /\ persistence' = Without(persistence, Range(items))
          ELSE /\ lastOp'.res = "NotFound"
               /\ persistence' = persistence]_vars

\* a Delete event of two ids failed on the second one and the first is still there
C7_Witness ==
  /\ lastOp.op = "handle_trash_event"
  /\ lastOp.kind = "Delete"
  /\ lastOp.res = "NotFound"
  /\ Len(lastOp.items) = 2
  /\ lastOp.items[1] \in StoreIds(persistence)
  /\ lst[lastOp.lsn].res = "NotFound"

\* C8: a NewTrash or Putback event publishes exactly one DidUpdateWorkspaceApps
\* notification per distinct workspace_id among the apps it names.
C8_OnePerWorkspace ==
  (lastOp.op = "handle_trash_event" /\ lastOp.kind \in {"NewTrash", "Putback"}
     /\ lastOp.res = "Ok" /\ Distinct(lastOp.items)) =>
    \A w \in Workspaces :
      Count(lastOp.notes, "DidUpdateWorkspaceApps", w) =
        IF \E i \in DOMAIN lastOp.items : RowOf(lastOp.items[i]).workspace_id = w
        THEN 1 ELSE 0

\* the workspaces of the apps the step just taken was about
Touched(op) ==
  IF op.op = "handle_trash_event" THEN {HomeOf(op.items[i]) : i \in DOMAIN op.items}
  ELSE {HomeOf(op.id)}

\* the persisted apps of w that are not trashed, in persisted order
Visible(s, trash, w) ==
  LET NotTrashed(r) == r.id \notin trash
      rows == SelectSeq(s[w], NotTrashed)
  IN [i \in 1..Len(rows) |-> AppPB(rows[i])]

\* C2 (as stated): after any successful mutating operation on a workspace W,
\* update_app included, the most recently published DidUpdateWorkspaceApps
\* payload for W is the current persisted list of W without the trashed ids.
C2_FreshPayload ==
  [][(lastOp'.op \in {"create_app_from_params", "create_app_on_local", "update_app",
                      "move_app", "handle_trash_event"} /\ lastOp'.res = "Ok") =>
       \A w \in Touched(lastOp') :
         ApplyNotes(lastWorkspaceApps, "DidUpdateWorkspaceApps", lastOp'.notes)[w]
           = <<Visible(persistence', trash_ids', w)>>]_vars

\* C2 (amended): after a successful create_app_from_params, create_app_on_local,
\* move_app or handled trash event touching W, the most recently published
\* DidUpdateWorkspaceApps payload for W is the persisted list of W without the
\* trashed ids, in persisted order; update_app publishes none.
C2_PublishedList ==
  [][/\ (lastOp'.op \in {"create_app_from_params", "create_app_on_local",
                         "move_app", "handle_trash_event"} /\ lastOp'.res = "Ok") =>
          \A w \in Touched(lastOp') :
            /\ Count(lastOp'.notes, "DidUpdateWorkspaceApps", w) >= 1
            /\ ApplyNotes(lastWorkspaceApps, "DidUpdateWorkspaceApps", lastOp'.notes)[w]
                 = <<Visible(persistence', trash_ids', w)>>
     /\ lastOp'.op \in {"update_app_commit", "update_app_notify", "update_app"} =>
          \A w \in Workspaces : Count(lastOp'.notes, "DidUpdateWorkspaceApps", w) = 0]_vars

\* a NewTrash event hid one of the two apps of W1, one of them renamed before
C2_Witness ==
  /\ lastOp.op = "handle_trash_event"
  /\ lastOp.kind = "NewTrash"
  /\ lastOp.res = "Ok"
  /\ Len(persistence["W1"]) = 2
  /\ \E i \in 1..2 : persistence["W1"][i].name = "B"
  /\ Len(Visible(persistence, trash_ids, "W1")) = 1
  /\ lastOp.notes = <<Note("DidUpdateWorkspaceApps", "W1",
                           Visible(persistence, trash_ids, "W1"))>>

\* C4: a listener that received a trash event runs its transaction, then sends
\* one acknowledgement carrying that transaction's outcome on the event's ack
\* sink, and only then receives again: per reception never zero, never two.
C4_OneAck ==
  [][/\ \A l \in Listeners :
          /\ (lst[l].pc = "recv" /\ lst'[l] # lst[l]) =>
               /\ lst'[l] = [pc |-> "handle", ev |-> Head(rx[l]), res |-> ""]
               /\ events' = events
          /\ (lst[l].pc = "handle" /\ lst'[l] # lst[l]) =>
               /\ lastOp'.op = "handle_trash_event" /\ lastOp'.lsn = l
               /\ lst'[l] = [pc |-> "ack", ev |-> lst[l].ev, res |-> lastOp'.res]
               /\ events'[lst[l].ev][1].acks = events[lst[l].ev][1].acks
          /\ (lst[l].pc = "ack" /\ lst'[l] # lst[l]) =>
               /\ lastOp'.op = "ack" /\ lastOp'.lsn = l
               /\ lastOp'.acks = Append(events[lst[l].ev][1].acks, lst[l].res)
               /\ lst'[l].pc = "recv"
     /\ \A e \in Slots :
          (events[e] # <<>> /\ events'[e] # <<>>
             /\ events'[e][1].acks # events[e][1].acks) =>
            /\ lastOp'.op = "ack"
            /\ lst[lastOp'.lsn].ev = e]_vars

\* a failed transaction was acknowledged, once, with its error
C4_Witness ==
  /\ lastOp.op = "ack"
  /\ lastOp.res = "NotFound"
  /\ lastOp.acks = <<"NotFound">>
  /\ lastOp.txs = <<"NotFound">>

\* C9: however many times initialize() was called, an emitted TrashApp event
\* is handled by exactly one transaction and acknowledged exactly once.
C9_InitializeIdempotent ==
  (lastOp.op = "ack" /\ lastOp.settled) =>
    /\ Len(lastOp.txs) = 1
    /\ Len(lastOp.acks) = 1

\* C11: after update_app({id, name: X}) on a persisted, non-trashed app,
\* read_app(id) yields a row named X; the detached remote update runs once
\* (no retry), publishes nothing and leaves persistence alone, also when it fails.
C11_LocalFirst ==
  [][/\ lastOp'.op = "update_app_commit" =>
          \A params \in UpdateAppParams :
            (UpdateAppCommit(lastOp'.who, params) /\ params.name # <<>>
               /\ params.id \notin trash_ids') =>
              LET r == ReadAppTx(persistence', trash_ids', params.id) IN
              /\ r.err = "Ok"
              /\ r.val # <<>>
              /\ r.val[1].id = params.id
              /\ r.val[1].name = params.name[1]
     /\ lastOp'.op \in {"remote_update_begin", "remote_update_end"} =>
          /\ persistence' = persistence
          /\ lastOp'.notes = <<>>
     /\ \A c \in Callers :
          /\ remote[c] = "running" => remote'[c] \in {"running", "none"}
          /\ (remote[c] = "none" /\ remote'[c] # "none") =>
               (lastOp'.op = "update_app" /\ lastOp'.res = "Ok" /\ lastOp'.who = c)]_vars

\* the remote update of a renamed app failed and the row keeps its new name
C11_Witness ==
  /\ lastOp.op = "remote_update_end"
  /\ lastOp.res = "Network"
  /\ remote[lastOp.who] = "none"
  /\ \E r \in StoreRows(persistence) : r.name = "B" /\ r.id \notin trash_ids

\* C12: after a transient receive error the listener goes on to its next
\* receive, and a receive that finds the stream closed ends the listener task.
C12_ListenerEnds ==
  [][lastOp'.op = "recv_error" =>
       IF lastOp'.res = "Closed"
       THEN lst'[lastOp'.lsn].pc = "done"
       ELSE lst'[lastOp'.lsn].pc = "recv"]_vars

\* C13: a successful create_app_from_params(p) returns the app the cloud
\* created for p, the app is persisted, read_app of its id yields Some(row)
\* with p's workspace_id and name, and the call published exactly one
\* DidUpdateWorkspaceApps, for p.workspace_id, whose items include the id.
C13_CreatedEverywhere ==
  [][/\ lastOp'.op = "create_app_on_server" =>
          \A params \in CreateAppParams :
            CreateAppOnServer(lastOp'.who, params) =>
              /\ calls'[lastOp'.who].app[1].workspace_id = params.workspace_id
              /\ calls'[lastOp'.who].app[1].name = params.name
              /\ calls'[lastOp'.who].app[1].id = lastOp'.id
     /\ (lastOp'.op = "create_app_from_params" /\ lastOp'.res = "Ok") =>
          LET c == lastOp'.who
              app == calls[c].app[1]
              notes == lastOp'.notes
          IN /\ calls[c].pc = "create_on_local"
             /\ lastOp'.val = <<AppPB(app)>>
             /\ app \in Range(persistence'[app.workspace_id])
             /\ ReadAppTx(persistence', trash_ids', app.id) = Ok(<<app>>)
             /\ Len(notes) = 1
             /\ notes[1].ty = "DidUpdateWorkspaceApps"
             /\ notes[1].id = app.workspace_id
             /\ \E j \in DOMAIN notes[1].payload : notes[1].payload[j] = AppPB(app)]_vars

\* an app was created in a workspace whose other app is trashed: the payload
\* shows the new app alone
C13_Witness ==
  /\ lastOp.op = "create_app_from_params"
  /\ lastOp.res = "Ok"
  /\ Len(persistence["W1"]) = 2
  /\ lastOp.notes[1].payload = lastOp.val

\* C14: a Delete event handled with success publishes exactly one
\* DidUpdateWorkspaceApps per distinct workspace of the deleted rows, each
\* computed after all the deletions, and no payload shows a deleted id.
C14_DeleteNotifies ==
  (lastOp.op = "handle_trash_event" /\ lastOp.kind = "Delete" /\ lastOp.res = "Ok") =>
    LET notes == lastOp.notes
        items == lastOp.items
    IN /\ \A w \in Workspaces :
            Count(notes, "DidUpdateWorkspaceApps", w) =
              IF \E i \in DOMAIN items : HomeOf(items[i]) = w THEN 1 ELSE 0
       /\ \A j \in DOMAIN notes :
            /\ notes[j].ty = "DidUpdateWorkspaceApps"
            /\ notes[j].payload = Visible(persistence, trash_ids, notes[j].id)
            /\ \A k \in DOMAIN notes[j].payload :
                 notes[j].payload[k].id \notin Range(items)

\* a Delete event removed one app of each workspace and an app of W1 is left
C14_Witness ==
  /\ lastOp.op = "handle_trash_event"
  /\ lastOp.kind = "Delete"
  /\ lastOp.res = "Ok"
  /\ Len(lastOp.notes) = 2
  /\ \E j \in 1..2 : lastOp.notes[j].id = "W1" /\ Len(lastOp.notes[j].payload) = 1

IdCount(apps, id) == Cardinality({i \in DOMAIN apps : apps[i].id = id})

\* C15: a successful move_app keeps the multiset of app ids (and the rows) of
\* the app's workspace, changes no other workspace and publishes exactly one
\* DidUpdateWorkspaceApps, for the workspace of the moved app.
C15_MoveIsPermutation ==
  [][(lastOp'.op = "move_app" /\ lastOp'.res = "Ok") =>
       LET w == RowOf(lastOp'.id).workspace_id IN
       /\ \A id \in AppIds : IdCount(persistence'[w], id) = IdCount(persistence[w], id)
       /\ Range(persistence'[w]) = Range(persistence[w])
       /\ \A v \in Workspaces \ {w} : persistence'[v] = persistence[v]
       /\ Len(lastOp'.notes) = 1
       /\ lastOp'.notes[1].ty = "DidUpdateWorkspaceApps"
       /\ lastOp'.notes[1].id = w]_vars

\* the second app of W1 was moved to the front while W2 holds an app
C15_Witness ==
  /\ lastOp.op = "move_app"
  /\ lastOp.res = "Ok"
  /\ lastOp.from = 1
  /\ lastOp.to = 0
  /\ SeqIds(persistence["W1"]) = <<"a2", "a1">>
  /\ persistence["W2"] # <<>>

\* C16: move_app(id, p, p) on a persisted app, p a position of its workspace,
\* leaves the order of the workspace as it was and still publishes exactly one
\* DidUpdateWorkspaceApps for the app's workspace.
C16_MoveToSamePosition ==
  [][(lastOp'.op = "move_app" /\ lastOp'.from = lastOp'.to /\ Exists(lastOp'.id)
        /\ lastOp'.from < Len(persistence[RowOf(lastOp'.id).workspace_id])) =>
       LET w == RowOf(lastOp'.id).workspace_id IN
       /\ lastOp'.res = "Ok"
       /\ persistence' = persistence
       /\ lastOp'.notes = <<Note("DidUpdateWorkspaceApps", w,
                                 Visible(persistence, trash_ids, w))>>]_vars

\* move_app("a1", 1, 1) over the workspace [a1, a2]
C16_Witness ==
  /\ lastOp.op = "move_app"
  /\ lastOp.res = "Ok"
  /\ lastOp.id = "a1"
  /\ lastOp.from = 1
  /\ lastOp.to = 1
  /\ SeqIds(persistence["W1"]) = <<"a1", "a2">>
  /\ Len(lastOp.notes) = 1

\* C17: read_local_apps(ids) returns the rows of the ids in the order given,
\* trashed ones included; with an id that is not persisted the call fails and
\* returns no list; persistence is unchanged and nothing is published.
C17_ReadLocalApps ==
  [][lastOp'.op = "read_local_apps" =>
       LET ids == lastOp'.items IN
       /\ IF Range(ids) \subseteq StoreIds(persistence)
          THEN /\ lastOp'.res = "Ok"
               /\ lastOp'.val = [i \in DOMAIN ids |-> RowOf(ids[i])]
          ELSE /\ lastOp'.res = "NotFound"
               /\ lastOp'.val = <<>>
       /\ persistence' = persistence
       /\ lastOp'.notes = <<>>]_vars

\* two apps were read in the reverse of their persisted order, one of them trashed
C17_Witness ==
  /\ lastOp.op = "read_local_apps"
  /\ lastOp.res = "Ok"
  /\ lastOp.items = <<"a2", "a1">>
  /\ SeqIds(persistence["W1"]) = <<"a1", "a2">>
  /\ "a1" \in trash_ids
  /\ SeqIds(lastOp.val) = <<"a2", "a1">>

\* C18: handling a NewTrash or Putback event leaves every persisted row as it
\* was, handling a Delete event only removes rows the event names, and handling
\* a trash event starts no call to the cloud (and leaves the trash set alone).
C18_TrashFrame ==
  [][lastOp'.op = "handle_trash_event" =>
       /\ lastOp'.kind \in {"NewTrash", "Putback"} => persistence' = persistence
       /\ lastOp'.kind = "Delete" =>
            \E ids \in SUBSET Range(lastOp'.items) :
              persistence' = Without(persistence, ids)
       /\ trash_ids' = trash_ids
       /\ calls' = calls
       /\ remote' = remote]_vars

\* a NewTrash event of two persisted apps was handled: both are still persisted
C18_Witness ==
  /\ lastOp.op = "handle_trash_event"
  /\ lastOp.kind = "NewTrash"
  /\ lastOp.res = "Ok"
  /\ Len(lastOp.items) = 2
  /\ Distinct(lastOp.items)
  /\ Range(lastOp.items) \subseteq trash_ids \cap StoreIds(persistence)

\* C19: once concurrent successful update_app calls on the same app have all
\* returned, the last DidUpdateApp payload published for the app is its
\* persisted row (the notifications follow the order of the commits).
C19_NotifyInCommitOrder ==
  (/\ lastOp = NoOp
   /\ \A c \in Callers :
        calls[c].pc = "idle" /\ calls[c].notified /\ remote[c] # "none") =>
    lastApp["a1"] = <<AppPB(RowOf("a1"))>>

InFlight == {e \in Slots : events[e] # <<>>}

\* the events in flight that listener l has taken from its stream
Taken(l) == InFlight \ Range(rx[l])

\* no queued event has a transaction or an ack, and the only event taken is
\* the one the listener is handling
OneAtATime(l) ==
  /\ \A e \in InFlight \cap Range(rx[l]) :
       events[e][1].txs = <<>> /\ events[e][1].acks = <<>>
  /\ Taken(l) = IF lst[l].pc \in {"handle", "ack"} THEN {lst[l].ev} ELSE {}
  /\ \A e \in Taken(l) :
       /\ events[e][1].acks = <<>>
       /\ Len(events[e][1].txs) = IF lst[l].pc = "ack" THEN 1 ELSE 0

\* C20: a single listener takes the events in the order received, one at a
\* time: the transaction and the ack of an event are over before the next
\* event is taken, so at most one trash-event transaction is under way.
C20_OneAtATime ==
  [][Cardinality(Subscribed) = 1 =>
       \A l \in Subscribed :
         /\ OneAtATime(l)'
         /\ lastOp'.op \in {"recv", "recv_filtered"} =>
              /\ Taken(l) = {}
              /\ rx'[l] = Tail(rx[l])
              /\ lastOp'.op = "recv" => lst'[l].ev = Head(rx[l])
         /\ lastOp'.op = "ack" =>
              /\ lastOp'.settled
              /\ lastOp'.acks = <<lastOp'.res>>
              /\ lastOp'.txs = <<lastOp'.res>>]_vars

\* the listener is about to acknowledge an event while another one waits in
\* its stream, untouched
C20_Witness ==
  /\ Subscribed = {1}
  /\ lst[1].pc = "ack"
  /\ rx[1] # <<>>
  /\ events[rx[1][1]][1].ty = "TrashApp"
  /\ events[rx[1][1]][1].txs = <<>>

====
